---- MODULE Spec2Model ----
(***************************************************************************)
(* Blog publishing system: POST /api/publish-blog, the serverless          *)
(* publisher, the GitHub file / pull-request services and the GitHub       *)
(* webhook handler, modelled as state machines over an abstract hosting    *)
(* provider (refs, commits, pull requests).                                *)
(*                                                                         *)
(* Every provider call is one step with a nondeterministic outcome (the    *)
(* network may fail any call); the blob uploads of createMultipleFiles are *)
(* issued together and complete in any order.                              *)
(***************************************************************************)
EXTENDS Integers, Sequences, FiniteSets, TLC

\* ------------------------------------------------------------------ bounds
MaxPosts == 2
MaxTicks == 1
MaxTitleLen == 3
MaxFieldLen == 2
MaxHalfSeconds == 2

\* --------------------------------------------------------- program constants
RateLimitDelayMs == 1000
HalfSecondMs == 500
MergeWaitMs == 2000

\* the two request slots that may run concurrently
Req == {1, 2}

Undef == <<>>

\* ------------------------------------------------------------ pure helpers
Max(a, b) == IF a >= b THEN a ELSE b

RECURSIVE SeqFilter(_, _)
SeqFilter(s, keep) ==
  IF s = <<>> THEN <<>>
  ELSE (IF Head(s) \in keep THEN <<Head(s)>> ELSE <<>>) \o SeqFilter(Tail(s), keep)

StartsWith(s, p) == Len(s) >= Len(p) /\ SubSeq(s, 1, Len(p)) = p

\* characters of the bounded title alphabet
WordCh == {"A", "B", "a", "b", "_"}
SpaceCh == {" "}
Chars == WordCh \cup SpaceCh \cup {"-", "!"}

toLowerCaseKeepsCase(c) == c

toLowerCase(c) == IF c = "A" THEN "a" ELSE IF c = "B" THEN "b" ELSE c

\* .replace(/\s+/g, '-'): every maximal run of whitespace becomes one hyphen
RECURSIVE ReplaceSpaceRuns(_)
ReplaceSpaceRuns(s) ==
  IF s = <<>> THEN <<>>
  ELSE IF Head(s) \in SpaceCh
       THEN IF Len(s) > 1 /\ s[2] \in SpaceCh
            THEN ReplaceSpaceRuns(Tail(s))
            ELSE <<"-">> \o ReplaceSpaceRuns(Tail(s))
       ELSE <<Head(s)>> \o ReplaceSpaceRuns(Tail(s))

\* .replace(/-+/g, '-'): every maximal run of hyphens becomes one hyphen
RECURSIVE CollapseHyphens(_)
CollapseHyphens(s) ==
  IF s = <<>> THEN <<>>
  ELSE IF Head(s) = "-" /\ Len(s) > 1 /\ s[2] = "-"
       THEN CollapseHyphens(Tail(s))
       ELSE <<Head(s)>> \o CollapseHyphens(Tail(s))

\* .trim(): strip leading and trailing whitespace
RECURSIVE TrimLeft(_)
TrimLeft(s) == IF s # <<>> /\ Head(s) \in SpaceCh THEN TrimLeft(Tail(s)) ELSE s
RECURSIVE TrimRight(_)
TrimRight(s) ==
  IF s # <<>> /\ s[Len(s)] \in SpaceCh THEN TrimRight(SubSeq(s, 1, Len(s) - 1)) ELSE s
Trim(s) == TrimRight(TrimLeft(s))

generateSlugNoCollapse(title) ==
  LET lower == [i \in 1..Len(title) |-> toLowerCase(title[i])]
      kept  == SeqFilter(lower, WordCh \cup SpaceCh \cup {"-"})
  IN Trim(ReplaceSpaceRuns(kept))

generateSlug(title) ==
  LET lower == [i \in 1..Len(title) |-> toLowerCase(title[i])]
      kept  == SeqFilter(lower, WordCh \cup SpaceCh \cup {"-"})
  IN Trim(CollapseHyphens(ReplaceSpaceRuns(kept)))

\* ------------------------------------------------------ request body values
\* JSON type tags of the fields validateBlogInput inspects
NullElem == [isNull |-> TRUE]
Post(t) == [isNull |-> FALSE, title |-> t, titleT |-> "string", descriptionT |-> "string",
            authorT |-> "string", dateT |-> "string", contentT |-> "string",
            publishedT |-> "undefined"]
NoContentPost(t) == [Post(t) EXCEPT !.contentT = "undefined"]
\* "true" / "false", or "throw" when a property of null is read
validateBlogInput(blog) ==
  IF blog.isNull THEN "throw"
  ELSE IF /\ blog.titleT = "string"
          /\ blog.descriptionT = "string"
          /\ blog.authorT = "string"
          /\ blog.dateT = "string"
          /\ blog.contentT = "string"
          /\ blog.publishedT \in {"undefined", "boolean"}
       THEN "true" ELSE "false"

\* index of the first element the validation loop stops at (0: none), and how
RECURSIVE FirstBad(_, _)
FirstBad(blogs, i) ==
  IF i > Len(blogs) THEN [idx |-> 0, how |-> "true"]
  ELSE IF validateBlogInput(blogs[i]) = "true" THEN FirstBad(blogs, i + 1)
       ELSE [idx |-> i, how |-> validateBlogInput(blogs[i])]

Titles == {<<"A">>, <<"b">>}
Elems == {Post(t) : t \in Titles} \cup {NoContentPost(<<"A">>), NullElem}
BlogLists == UNION {[1..n -> Elems] : n \in 0..MaxPosts}
\* body.blogs: a JSON array, or absent, or a non-array truthy value
BlogsField == [kind : {"array"}, list : BlogLists]
              \cup {[kind |-> "missing", list |-> <<>>], [kind |-> "notArray", list |-> <<>>]}

\* ---------------------------------------------------------- provider values
MainTree == {[path |-> <<"a">>, content |-> Post(<<"a">>)]}
MasterTree == {}
Commit(tree, parents) == [tree |-> tree, parents |-> parents]
MainHead == Commit(MainTree, <<>>)
MasterHead == Commit(MasterTree, <<>>)

TreePut(tree, path, content) ==
  {e \in tree : e.path # path} \cup {[path |-> path, content |-> content]}
HasPath(tree, path) == \E e \in tree : e.path = path

Url(n) == <<"pull", n>>

\* PR titles as token sequences; "NewBlogPost" stands for the text
\* "<memo emoji> New Blog Post" that both title templates begin with
BlogPrefix == <<"NewBlogPost", ":">>
BlogPrTitle(title) == BlogPrefix \o <<" ">> \o title
PublisherBatchTitle == <<"NewBlogPost", "s", "(n)">>
RouteBatchTitle == <<"New Blog Posts", "(n)">>

\* a trace event: a call being issued or failing (val: the identifier passed),
\* or succeeding (val: the identifier returned)
Ev(op, ev, post, val) == [op |-> op, ev |-> ev, post |-> post, val |-> val]
Call(op, ok, post, arg, ret) ==
  <<Ev(op, "call", post, arg), Ev(op, IF ok THEN "ok" ELSE "fail", post, IF ok THEN ret ELSE arg)>>

VARIABLES
  now,      \* the wall clock read by Date.now(), in ms
  refs,     \* provider: branch name -> head commit
  pulls,    \* provider: sequence of pull requests, number = index
  input,    \* per request: environment and JSON body
  pc,       \* per request: position in the handler
  inv,      \* per request: the locals of the running invocation
  trace,    \* per request: provider calls issued, their outcomes, and sleeps
  resp,     \* per request: the HTTP response, Undef until answered
  hook,     \* the GitHub webhook handler: payload, position, calls, response
  pure,     \* arguments and results of the converter functions under test
  blogsDir, \* the blogs directory of the front end: file name -> stored posts
  n8n,      \* per request slot: the n8n webhook handler's payload, position, response
  pages     \* the Markdown collection and what the blog pages last rendered

vars == <<now, refs, pulls, input, pc, inv, trace, resp, hook, pure, blogsDir, n8n, pages>>

\* ----------------------------------------------------------- initial state
Options == [labels : {<<>>, <<"automated">>}, reviewers : {<<>>, <<"editor">>},
            autoMerge : BOOLEAN, baseBranch : {Undef, <<"master">>}]

Bodies == [isNull : {FALSE}, blogs : BlogsField, mode : {Undef, <<"separate">>, <<"batch">>, <<"Separate">>},
           batchTitle : {Undef}, options : Options]
NullBody == [isNull |-> TRUE]

Inputs == [env : BOOLEAN, body : Bodies \cup {NullBody}]

Idle == [env |-> FALSE, body |-> NullBody]

InvInit == [batch |-> FALSE, i |-> 0, slug |-> <<>>, ts |-> 0, branch |-> <<>>,
            base |-> <<>>, from |-> <<>>, baseSha |-> Undef, sha |-> {}, cur |-> Undef,
            curTree |-> Undef, blobs |-> <<>>, tree |-> <<>>, newTree |-> Undef,
            newCommit |-> Undef, prNum |-> 0, prUrl |-> Undef, merge |-> Undef, wake |-> 0,
            failed |-> <<>>, results |-> <<>>, result |-> Undef]

Repos == {[b \in {<<"main">>, <<"master">>} |-> IF b = <<"main">> THEN MainHead ELSE MasterHead],
          [b \in {<<"master">>} |-> MasterHead]}

PureIdle == [pc |-> "idle"]

\* the front end is not part of the run: no blogs directory, no n8n request
N8nIdle == [pc |-> "idle", payload |-> Undef, resp |-> Undef]
NoDir == [exists |-> FALSE, files |-> {}]
NoPages == [allPosts |-> <<>>, sortedPosts |-> <<>>, currentPosts |-> <<>>, slug |-> Undef,
            post |-> Undef, sitemap |-> <<>>]
NoSite ==
  /\ blogsDir = NoDir
  /\ n8n = [r \in Req |-> N8nIdle]
  /\ pages = NoPages

HookIdle == [payload |-> Undef, pc |-> "idle", wake |-> 0, trace |-> <<>>, resp |-> Undef]

\* one publish request, any input
Init ==
  /\ now = 0
  /\ refs \in Repos
  /\ pulls = <<>>
  /\ \E in \in Inputs : input = [r \in Req |-> IF r = 1 THEN in ELSE Idle]
  /\ pc = [r \in Req |-> IF r = 1 THEN "start" ELSE "idle"]
  /\ inv = [r \in Req |-> InvInit]
  /\ trace = [r \in Req |-> <<>>]
  /\ resp = [r \in Req |-> Undef]
  /\ NoSite
  /\ hook = HookIdle
  /\ pure = PureIdle

\* ------------------------------------------------------------ step helpers
Step(r, newpc, newinv, evs) ==
  /\ pc' = [pc EXCEPT ![r] = newpc]
  /\ inv' = [inv EXCEPT ![r] = newinv]
  /\ trace' = [trace EXCEPT ![r] = @ \o evs]

Blogs(r) == input[r].body.blogs.list
Opts(r) == input[r].body.options

\* a rejected await inside the try block transfers control to its catch
Throw(l, op) == [l EXCEPT !.failed = <<op>>]

\* where publishBlog / publishMultipleBlogsInSinglePR continue once the pull request exists
AfterReviewers(o) == IF o.autoMerge THEN "mergeWait" ELSE "return"
AfterLabelsSkipsReviewers(o) == AfterReviewers(o)

AfterLabels(o) == IF o.reviewers # <<>> THEN "addReviewers" ELSE AfterReviewers(o)
AfterPullRequestPerPost(o) ==
  IF Len(pulls) + 1 < MaxPosts THEN "createPullRequest"
  ELSE IF o.labels # <<>> THEN "addLabels" ELSE AfterLabels(o)

AfterPullRequest(o) == IF o.labels # <<>> THEN "addLabels" ELSE AfterLabels(o)

\* ----------------------------------------------- POST /api/publish-blog
\* errorIndex: the index named by the error text, -1 when none is named
Json(status, success, result, results, summary, errorIndex) ==
  [status |-> status, success |-> success, result |-> result, results |-> results,
   summary |-> summary, errorIndex |-> errorIndex]

\* environment check, up to `await request.json()`
RouteStart(r) ==
  /\ pc[r] = "start"
  /\ IF input[r].env
     THEN /\ pc' = [pc EXCEPT ![r] = "parse"]
          /\ resp' = resp
     ELSE /\ pc' = [pc EXCEPT ![r] = "done"]
          /\ resp' = [resp EXCEPT ![r] = Json(500, FALSE, Undef, Undef, Undef, -1)]
  /\ UNCHANGED <<pages, n8n, blogsDir, pure, hook, now, refs, pulls, input, inv, trace>>

\* the status the validation block answers with, 0 when the request passes
ValidationStatus(body) ==
  IF body.isNull THEN 500
  ELSE IF body.blogs.kind # "array" \/ body.blogs.list = <<>> THEN 400
  ELSE LET bad == FirstBad(body.blogs.list, 1)
       IN IF bad.idx = 0 THEN 0
          ELSE IF bad.how = "throw" THEN 500 ELSE 400

SelectModeDefaultSeparate(body) == IF body.mode = <<"batch">> THEN "batch" ELSE "separate"

SelectMode(body) == IF body.mode = <<"separate">> THEN "separate" ELSE "batch"

\* body validation and mode selection
RouteValidate(r) ==
  /\ pc[r] = "parse"
  /\ LET body == input[r].body
         st == ValidationStatus(body)
     IN IF st # 0
        THEN /\ pc' = [pc EXCEPT ![r] = "done"]
             /\ resp' = [resp EXCEPT ![r] =
                           Json(st, FALSE, Undef, Undef, Undef,
                                IF st = 400 /\ body.blogs.list # <<>>
                                THEN FirstBad(body.blogs.list, 1).idx - 1 ELSE -1)]
             /\ inv' = inv
        ELSE /\ resp' = resp
             /\ IF SelectMode(body) = "batch"
                THEN /\ pc' = [pc EXCEPT ![r] = "batchBegin"]
                     /\ inv' = [inv EXCEPT ![r].batch = TRUE]
                ELSE /\ pc' = [pc EXCEPT ![r] = "publishBegin"]
                     /\ inv' = [inv EXCEPT ![r].i = 1]
  /\ UNCHANGED <<pages, n8n, blogsDir, pure, hook, now, refs, pulls, input, trace>>


\* ------------------------------------------ ServerlessBlogPublisher.publishBlog
BranchName(slug, ts) == <<"blog", slug, ts>>
BatchBranchName(ts) == <<"blog", <<"batch">>, ts>>
BaseBranch(o) == IF o.baseBranch # Undef THEN o.baseBranch ELSE <<"main">>

PublishBlogBegin(r) ==
  /\ pc[r] = "publishBegin"
  /\ LET l == inv[r]
         slug == generateSlug(Blogs(r)[l.i].title)
         timestamp == now
     IN Step(r, "getBranch",
             [l EXCEPT !.slug = slug, !.ts = timestamp, !.branch = BranchName(slug, timestamp),
                       !.base = BaseBranch(Opts(r)), !.from = BaseBranch(Opts(r)),
                       !.baseSha = Undef, !.sha = {}, !.prNum = 0, !.prUrl = Undef,
                       !.merge = Undef, !.failed = <<>>],
             <<>>)
  /\ UNCHANGED <<pages, n8n, blogsDir, pure, hook, now, refs, pulls, input, resp>>

PublishBatchBegin(r) ==
  /\ pc[r] = "batchBegin"
  /\ LET timestamp == now
     IN Step(r, "getBranch",
             [inv[r] EXCEPT !.ts = timestamp, !.branch = BatchBranchName(timestamp),
                            !.base = BaseBranch(Opts(r)), !.from = BaseBranch(Opts(r))],
             <<>>)
  /\ UNCHANGED <<pages, n8n, blogsDir, pure, hook, now, refs, pulls, input, resp>>

\* ------------------------------------------------------ GitHubFileService
\* getBranchSHA: repos.getBranch on l.from; a failed lookup of 'main' retries 'master'
GetBranchSHA(r) ==
  /\ pc[r] = "getBranch"
  /\ LET l == inv[r] IN
     \E ok \in BOOLEAN :
       /\ ok => l.from \in DOMAIN refs
       /\ IF ok
          THEN Step(r, "createRef", [l EXCEPT !.baseSha = refs[l.from]],
                    Call("getBranch", TRUE, l.i, l.from, refs[l.from]))
          ELSE IF l.from = <<"main">>
               THEN Step(r, "getBranch", [l EXCEPT !.from = <<"master">>],
                         Call("getBranch", FALSE, l.i, l.from, Undef))
               ELSE Step(r, "catch", Throw(l, "getBranch"),
                         Call("getBranch", FALSE, l.i, l.from, Undef))
  /\ UNCHANGED <<pages, n8n, blogsDir, pure, hook, now, refs, pulls, input, resp>>

\* createBranch: git.createRef at the base commit
CreateBranch(r) ==
  /\ pc[r] = "createRef"
  /\ LET l == inv[r] IN
     \E ok \in BOOLEAN :
       /\ ok => l.branch \notin DOMAIN refs
       /\ IF ok
          THEN /\ refs' = [b \in DOMAIN refs \cup {l.branch} |->
                             IF b = l.branch THEN l.baseSha ELSE refs[b]]
               /\ Step(r, IF l.batch THEN "getRef" ELSE "getContent", l,
                       Call("createRef", TRUE, l.i, l.branch, l.branch))
          ELSE /\ refs' = refs
               /\ Step(r, "catch", Throw(l, "createRef"), Call("createRef", FALSE, l.i, l.branch, Undef))
  /\ UNCHANGED <<pages, n8n, blogsDir, pure, hook, now, pulls, input, resp>>

FilePath(slug) == slug

\* createOrUpdateFile, first half: repos.getContent; a failure is swallowed
GetContent(r) ==
  /\ pc[r] = "getContent"
  /\ LET l == inv[r] IN
     \E ok \in BOOLEAN :
       /\ ok => (l.branch \in DOMAIN refs /\ HasPath(refs[l.branch].tree, FilePath(l.slug)))
       /\ Step(r, "putFile",
               [l EXCEPT !.sha = IF ok THEN {e \in refs[l.branch].tree : e.path = FilePath(l.slug)}
                                 ELSE {}],
               Call("getContent", ok, l.i, Undef, Undef))
  /\ UNCHANGED <<pages, n8n, blogsDir, pure, hook, now, refs, pulls, input, resp>>

\* createOrUpdateFile, second half: repos.createOrUpdateFileContents
\* (the provider rejects a write to an existing path without its current sha)
PutFile(r) ==
  /\ pc[r] = "putFile"
  /\ LET l == inv[r]
         path == FilePath(l.slug) IN
     \E ok \in BOOLEAN :
       /\ ok => /\ l.branch \in DOMAIN refs
                /\ IF HasPath(refs[l.branch].tree, path)
                   THEN l.sha = {e \in refs[l.branch].tree : e.path = path}
                   ELSE l.sha = {}
       /\ IF ok
          THEN /\ refs' = [refs EXCEPT ![l.branch] =
                             Commit(TreePut(@.tree, path, Blogs(r)[l.i]), <<@>>)]
               /\ Step(r, "createPullRequest", l, Call("putFile", TRUE, l.i, Undef, Undef))
          ELSE /\ refs' = refs
               /\ Step(r, "catch", Throw(l, "putFile"), Call("putFile", FALSE, l.i, Undef, Undef))
  /\ UNCHANGED <<pages, n8n, blogsDir, pure, hook, now, pulls, input, resp>>

\* createMultipleFiles: git.getRef of the branch
GetRef(r) ==
  /\ pc[r] = "getRef"
  /\ LET l == inv[r] IN
     \E ok \in BOOLEAN :
       /\ ok => l.branch \in DOMAIN refs
       /\ IF ok
          THEN Step(r, "getCommit", [l EXCEPT !.cur = refs[l.branch]], Call("getRef", TRUE, 0, Undef, Undef))
          ELSE Step(r, "catch", Throw(l, "getRef"), Call("getRef", FALSE, 0, Undef, Undef))
  /\ UNCHANGED <<pages, n8n, blogsDir, pure, hook, now, refs, pulls, input, resp>>

\* createMultipleFiles: git.getCommit of the current commit
GetCommit(r) ==
  /\ pc[r] = "getCommit"
  /\ LET l == inv[r] IN
     \E ok \in BOOLEAN :
       IF ok
       THEN Step(r, "startBlobs", [l EXCEPT !.curTree = l.cur.tree], Call("getCommit", TRUE, 0, Undef, Undef))
       ELSE Step(r, "catch", Throw(l, "getCommit"), Call("getCommit", FALSE, 0, Undef, Undef))
  /\ UNCHANGED <<pages, n8n, blogsDir, pure, hook, now, refs, pulls, input, resp>>

\* the files array built by publishMultipleBlogsInSinglePR
Files(blogs) == [k \in 1..Len(blogs) |->
                   [path |-> FilePath(generateSlug(blogs[k].title)), content |-> blogs[k]]]

BlobSha(content) == [blob |-> content]

\* createMultipleFiles: files.map issues every git.createBlob before any completes
StartBlobs(r) ==
  /\ pc[r] = "startBlobs"
  /\ LET l == inv[r]
         n == Len(Blogs(r)) IN
     Step(r, "blobs", [l EXCEPT !.blobs = [k \in 1..n |-> [st |-> "pending", sha |-> Undef]]],
          [k \in 1..n |-> Ev("createBlob", "call", 0, [k |-> k])])
  /\ UNCHANGED <<pages, n8n, blogsDir, pure, hook, now, refs, pulls, input, resp>>

\* one blob upload completes; uploads complete in any order, also after
\* Promise.all has rejected and the invocation has moved on
BlobDone(r, k) ==
  /\ k \in 1..Len(inv[r].blobs)
  /\ inv[r].blobs[k].st = "pending"
  /\ \E ok \in BOOLEAN :
       LET sha == IF ok THEN BlobSha(Files(Blogs(r))[k].content) ELSE Undef IN
       /\ inv' = [inv EXCEPT ![r].blobs[k] = [st |-> IF ok THEN "ok" ELSE "fail", sha |-> sha]]
       /\ trace' = [trace EXCEPT ![r] =
                      Append(@, Ev("createBlob", IF ok THEN "ok" ELSE "fail", 0,
                                   [k |-> k, sha |-> sha]))]
  /\ UNCHANGED <<pages, n8n, blogsDir, pure, hook, now, refs, pulls, input, pc, resp>>

\* Promise.all rejects as soon as one upload has failed
BlobsRejected(r) ==
  /\ pc[r] = "blobs"
  /\ \E k \in 1..Len(inv[r].blobs) : inv[r].blobs[k].st = "fail"
  /\ Step(r, "catch", Throw(inv[r], "createBlob"), <<>>)
  /\ UNCHANGED <<pages, n8n, blogsDir, pure, hook, now, refs, pulls, input, resp>>

\* the tree entries Promise.all resolves to, in file order
TreeEntries(files, blobs) == [k \in 1..Len(files) |-> [path |-> files[k].path, sha |-> blobs[k].sha]]

TreeSha(tree) == [treeOf |-> tree]

\* the provider's git.createTree: base tree overlaid with the entries' blobs
RECURSIVE ProviderTree(_, _, _)
ProviderTree(tree, entries, k) ==
  IF k > Len(entries) THEN tree
  ELSE ProviderTree(TreePut(tree, entries[k].path, entries[k].sha.blob), entries, k + 1)

\* createMultipleFiles: git.createTree once Promise.all has resolved
CreateTree(r) ==
  /\ pc[r] = "blobs"
  /\ \A k \in 1..Len(inv[r].blobs) : inv[r].blobs[k].st = "ok"
  /\ LET l == inv[r]
         tree == TreeEntries(Files(Blogs(r)), l.blobs)
         newTree == TreeSha(ProviderTree(l.curTree, tree, 1)) IN
     \E ok \in BOOLEAN :
       IF ok
       THEN Step(r, "createCommit", [l EXCEPT !.tree = tree, !.newTree = newTree],
                 Call("createTree", TRUE, 0, tree, newTree))
       ELSE Step(r, "catch", Throw(l, "createTree"), Call("createTree", FALSE, 0, tree, Undef))
  /\ UNCHANGED <<pages, n8n, blogsDir, pure, hook, now, refs, pulls, input, resp>>

CommitTreeStale(l) == TreeSha(l.curTree)

\* the tree the new commit is created on: newTree.sha
CommitTree(l) == l.newTree

\* createMultipleFiles: git.createCommit on the new tree
CreateCommit(r) ==
  /\ pc[r] = "createCommit"
  /\ LET l == inv[r]
         newCommit == Commit(CommitTree(l).treeOf, <<l.cur>>) IN
     \E ok \in BOOLEAN :
       IF ok
       THEN Step(r, "updateRef", [l EXCEPT !.newCommit = newCommit],
                 Call("createCommit", TRUE, 0, CommitTree(l), newCommit))
       ELSE Step(r, "catch", Throw(l, "createCommit"),
                 Call("createCommit", FALSE, 0, CommitTree(l), Undef))
  /\ UNCHANGED <<pages, n8n, blogsDir, pure, hook, now, refs, pulls, input, resp>>

UpdateRefMovesOnFailure(r) ==
  /\ pc[r] = "updateRef"
  /\ LET l == inv[r] IN
     /\ refs' = [refs EXCEPT ![l.branch] = l.newCommit]
     /\ Step(r, "catch", Throw(l, "updateRef"), Call("updateRef", FALSE, 0, l.newCommit, Undef))
  /\ UNCHANGED <<pages, n8n, blogsDir, pure, hook, now, pulls, input, resp>>

\* createMultipleFiles: git.updateRef of the branch to the new commit
UpdateRef(r) ==
  /\ pc[r] = "updateRef"
  /\ LET l == inv[r] IN
     \E ok \in BOOLEAN :
       /\ ok => l.branch \in DOMAIN refs
       /\ IF ok
          THEN /\ refs' = [refs EXCEPT ![l.branch] = l.newCommit]
               /\ Step(r, "createPullRequest", l, Call("updateRef", TRUE, 0, l.newCommit, Undef))
          ELSE /\ refs' = refs
               /\ Step(r, "catch", Throw(l, "updateRef"),
                       Call("updateRef", FALSE, 0, l.newCommit, Undef))
  /\ UNCHANGED <<pages, n8n, blogsDir, pure, hook, now, pulls, input, resp>>

\* ------------------------------------------------------------ GitHubService
PullRequest(title, head, base) ==
  [title |-> title, head |-> head, base |-> base, labels |-> <<>>, reviewers |-> <<>>,
   merged |-> FALSE]

\* entering the auto-merge block starts the setTimeout that precedes the merge
Enter(l, newpc) == IF newpc = "mergeWait" THEN [l EXCEPT !.wake = now + MergeWaitMs] ELSE l
EnterEv(l, newpc) == IF newpc = "mergeWait" THEN <<Ev("mergeWait", "call", l.i, Undef)>> ELSE <<>>

PrTitle(r) ==
  IF inv[r].batch
  THEN LET prTitle == IF input[r].body.batchTitle # Undef THEN input[r].body.batchTitle
                      ELSE RouteBatchTitle
       IN IF prTitle # <<>> THEN prTitle ELSE PublisherBatchTitle
  ELSE BlogPrTitle(Blogs(r)[inv[r].i].title)

\* createPullRequest: pulls.create; the provider needs both branches to exist
CreatePullRequest(r) ==
  /\ pc[r] = "createPullRequest"
  /\ LET l == inv[r]
         n == Len(pulls) + 1
         next == AfterPullRequest(Opts(r)) IN
     \E ok \in BOOLEAN :
       /\ ok => (l.base \in DOMAIN refs /\ l.branch \in DOMAIN refs)
       /\ IF ok
          THEN /\ pulls' = Append(pulls, PullRequest(PrTitle(r), l.branch, l.base))
               /\ Step(r, next, Enter([l EXCEPT !.prNum = n, !.prUrl = Url(n)], next),
                       Call("createPullRequest", TRUE, l.i, Undef, n) \o EnterEv(l, next))
          ELSE /\ pulls' = pulls
               /\ Step(r, "catch", Throw(l, "createPullRequest"),
                       Call("createPullRequest", FALSE, l.i, Undef, Undef))
  /\ UNCHANGED <<pages, n8n, blogsDir, pure, hook, now, refs, input, resp>>

\* addLabels: issues.addLabels
AddLabels(r) ==
  /\ pc[r] = "addLabels"
  /\ LET l == inv[r]
         next == AfterLabels(Opts(r)) IN
     \E ok \in BOOLEAN :
       IF ok
       THEN /\ pulls' = [pulls EXCEPT ![l.prNum].labels = Opts(r).labels]
            /\ Step(r, next, Enter(l, next),
                    Call("addLabels", TRUE, l.i, l.prNum, Undef) \o EnterEv(l, next))
       ELSE /\ pulls' = pulls
            /\ Step(r, "catch", Throw(l, "addLabels"),
                    Call("addLabels", FALSE, l.i, l.prNum, Undef))
  /\ UNCHANGED <<pages, n8n, blogsDir, pure, hook, now, refs, input, resp>>

\* addReviewers: pulls.requestReviewers
AddReviewers(r) ==
  /\ pc[r] = "addReviewers"
  /\ LET l == inv[r]
         next == AfterReviewers(Opts(r)) IN
     \E ok \in BOOLEAN :
       IF ok
       THEN /\ pulls' = [pulls EXCEPT ![l.prNum].reviewers = Opts(r).reviewers]
            /\ Step(r, next, Enter(l, next),
                    Call("addReviewers", TRUE, l.i, l.prNum, Undef) \o EnterEv(l, next))
       ELSE /\ pulls' = pulls
            /\ Step(r, "catch", Throw(l, "addReviewers"),
                    Call("addReviewers", FALSE, l.i, l.prNum, Undef))
  /\ UNCHANGED <<pages, n8n, blogsDir, pure, hook, now, refs, input, resp>>

\* the 2000 ms setTimeout before the merge has elapsed
MergeWaitElapsed(r) ==
  /\ pc[r] = "mergeWait"
  /\ now' = Max(now, inv[r].wake)
  /\ Step(r, "merge", inv[r], <<Ev("mergeWait", "ok", inv[r].i, Undef)>>)
  /\ UNCHANGED <<pages, n8n, blogsDir, pure, hook, refs, pulls, input, resp>>

MergeTrees(base, head) == {e \in base : ~HasPath(head, e.path)} \cup head

MergePullRequestThrows(r) ==
  /\ pc[r] = "merge"
  /\ LET l == inv[r] IN
     Step(r, "catch", Throw(l, "merge"), Call("merge", FALSE, l.i, l.prNum, Undef))
  /\ UNCHANGED <<pages, n8n, blogsDir, pure, hook, now, refs, pulls, input, resp>>

\* mergePullRequest: pulls.merge; a failure is caught and only logged
MergePullRequest(r) ==
  /\ pc[r] = "merge"
  /\ LET l == inv[r]
         pr == pulls[l.prNum] IN
     \E ok \in BOOLEAN :
       /\ ok => (~pr.merged /\ pr.base \in DOMAIN refs /\ pr.head \in DOMAIN refs)
       /\ IF ok
          THEN LET sha == Commit(MergeTrees(refs[pr.base].tree, refs[pr.head].tree),
                                 <<refs[pr.base], refs[pr.head]>>) IN
               /\ pulls' = [pulls EXCEPT ![l.prNum].merged = TRUE]
               /\ refs' = [refs EXCEPT ![pr.base] = sha]
               /\ Step(r, "return", [l EXCEPT !.merge = [merged |-> TRUE, sha |-> sha]],
                       Call("merge", TRUE, l.i, l.prNum, sha))
          ELSE /\ pulls' = pulls
               /\ refs' = refs
               /\ Step(r, "return", l, Call("merge", FALSE, l.i, l.prNum, Undef))
  /\ UNCHANGED <<pages, n8n, blogsDir, pure, hook, now, input, resp>>

\* ------------------------------------------------- publisher results
Result(success, slug, branchName, prUrl, prNumber, merged, mergeSha, error) ==
  [success |-> success, slug |-> slug, branchName |-> branchName, prUrl |-> prUrl,
   prNumber |-> prNumber, merged |-> merged, mergeSha |-> mergeSha, error |-> error]

SuccessResultNoUrl(l) ==
  Result(TRUE, IF l.batch THEN Undef ELSE l.slug, l.branch, Undef, l.prNum,
         l.merge # Undef, IF l.merge # Undef THEN l.merge.sha ELSE Undef, Undef)

\* the object returned at the end of the try block
SuccessResult(l) ==
  Result(TRUE, IF l.batch THEN Undef ELSE l.slug, l.branch, l.prUrl, l.prNum,
         l.merge # Undef, IF l.merge # Undef THEN l.merge.sha ELSE Undef, Undef)

FailureResultSucceeds(l) == Result(TRUE, Undef, Undef, Undef, 0, FALSE, Undef, l.failed)

\* the object returned by the catch block (absent fields read as Undef / 0 / FALSE)
FailureResult(l) == Result(FALSE, Undef, Undef, Undef, 0, FALSE, Undef, l.failed)

\* publishMultipleBlogs: results.push(result), then the delay or the next post
Deliver(r, l, res) ==
  IF l.batch
  THEN Step(r, "respond", [l EXCEPT !.result = res], <<>>)
  ELSE LET l2 == [l EXCEPT !.results = Append(@, res)] IN
       IF Len(Blogs(r)) > 1
       THEN Step(r, "delay", [l2 EXCEPT !.wake = now + RateLimitDelayMs],
                 <<Ev("delay", "call", l.i, Undef)>>)
       ELSE IF l.i < Len(Blogs(r))
            THEN Step(r, "publishBegin", [l2 EXCEPT !.i = @ + 1], <<>>)
            ELSE Step(r, "respond", l2, <<>>)

PublishReturn(r) ==
  /\ pc[r] = "return"
  /\ Deliver(r, inv[r], SuccessResult(inv[r]))
  /\ UNCHANGED <<pages, n8n, blogsDir, pure, hook, now, refs, pulls, input, resp>>

PublishCatchRollback(r) ==
  /\ pc[r] = "catch"
  /\ refs' = [b \in DOMAIN refs \ {inv[r].branch} |-> refs[b]]
  /\ Deliver(r, inv[r], FailureResult(inv[r]))
  /\ UNCHANGED <<pages, n8n, blogsDir, pure, hook, now, pulls, input, resp>>

PublishCatch(r) ==
  /\ pc[r] = "catch"
  /\ Deliver(r, inv[r], FailureResult(inv[r]))
  /\ UNCHANGED <<pages, n8n, blogsDir, pure, hook, now, refs, pulls, input, resp>>

\* publishMultipleBlogs: the 1000 ms setTimeout after a post has elapsed
RateLimitDelayElapsed(r) ==
  /\ pc[r] = "delay"
  /\ now' = Max(now, inv[r].wake)
  /\ LET l == inv[r] IN
     IF l.i < Len(Blogs(r))
     THEN Step(r, "publishBegin", [l EXCEPT !.i = @ + 1], <<Ev("delay", "ok", l.i, Undef)>>)
     ELSE Step(r, "respond", l, <<Ev("delay", "ok", l.i, Undef)>>)
  /\ UNCHANGED <<pages, n8n, blogsDir, pure, hook, refs, pulls, input, resp>>

\* ------------------------------------------- the route's response
CountAll(results, b) == Len(results)

Count(results, b) == Cardinality({k \in 1..Len(results) : results[k].success = b})

Summary(total, succeeded, failed, mode, defaultMode) ==
  [total |-> total, succeeded |-> succeeded, failed |-> failed, mode |-> mode,
   defaultMode |-> defaultMode]

RouteRespond(r) ==
  /\ pc[r] = "respond"
  /\ LET l == inv[r]
         body == input[r].body IN
     resp' = [resp EXCEPT ![r] =
       IF l.batch
       THEN Json(IF l.result.success THEN 200 ELSE 500, l.result.success, l.result, Undef,
                 Summary(Len(body.blogs.list), -1, -1, "batch", body.mode = Undef), -1)
       ELSE LET allSucceeded == \A k \in 1..Len(l.results) : l.results[k].success IN
            Json(IF allSucceeded THEN 200 ELSE 207, allSucceeded, Undef, l.results,
                 Summary(Len(l.results), Count(l.results, TRUE), Count(l.results, FALSE),
                         "separate", FALSE), -1)]
  /\ pc' = [pc EXCEPT ![r] = "done"]
  /\ UNCHANGED <<pages, n8n, blogsDir, pure, hook, now, refs, pulls, input, inv, trace>>

\* the README's client: result.results[0].prUrl on the response body
ReadmePrUrl(body) ==
  IF body.results = Undef THEN <<"TypeError">> ELSE body.results[1].prUrl

\* ---------------------------------------------------------- specification
Handler(r) ==
  \/ RouteStart(r)
  \/ RouteValidate(r)
  \/ PublishBlogBegin(r)
  \/ PublishBatchBegin(r)
  \/ GetBranchSHA(r)
  \/ CreateBranch(r)
  \/ GetContent(r)
  \/ PutFile(r)
  \/ GetRef(r)
  \/ GetCommit(r)
  \/ StartBlobs(r)
  \/ \E k \in 1..MaxPosts : BlobDone(r, k)
  \/ BlobsRejected(r)
  \/ CreateTree(r)
  \/ CreateCommit(r)
  \/ UpdateRef(r)
  \/ CreatePullRequest(r)
  \/ AddLabels(r)
  \/ AddReviewers(r)
  \/ MergeWaitElapsed(r)
  \/ MergePullRequest(r)
  \/ PublishReturn(r)
  \/ PublishCatch(r)
  \/ RateLimitDelayElapsed(r)
  \/ RouteRespond(r)

Next == \E r \in Req : Handler(r)

Spec == Init /\ [][Next]_vars

\* ------------------------------------------------ POST /api/webhook/github
AutoMergeLabels == {"auto-merge", "automated", "auto-publish"}
AutomatedAccount == "kkasaei"

IsBlogPost(pr) == StartsWith(pr.title, BlogPrefix)
HasAutoMergeLabel(pr) == \E k \in 1..Len(pr.labels) : pr.labels[k] \in AutoMergeLabels

ShouldAutoMergeAnyTitle(pr) ==
  /\ (HasAutoMergeLabel(pr) \/ pr.user = AutomatedAccount)
  /\ pr.base = <<"main">>

ShouldAutoMerge(pr) ==
  /\ IsBlogPost(pr)
  /\ (HasAutoMergeLabel(pr) \/ pr.user = AutomatedAccount)
  /\ pr.base = <<"main">>

Payloads == [token : BOOLEAN, action : {"opened", "closed"}, hasPr : BOOLEAN,
             hasRepo : BOOLEAN, number : {1}, title : {BlogPrTitle(<<"A">>), PublisherBatchTitle, RouteBatchTitle, <<"NewBlogPost">>},
             labels : {<<>>, <<"blog">>, <<"automated">>, <<"blog", "auto-merge">>,
                       <<"auto-publish">>},
             user : {AutomatedAccount, "octocat"}, base : {<<"main">>, <<"master">>},
             head : {BranchName(<<"a">>, 0)}]

Reply(status, message) == [status |-> status, message |-> message]

HookAnswer(reply) == hook' = [hook EXCEPT !.pc = "done", !.resp = reply]
HookStep(newpc, evs) == hook' = [hook EXCEPT !.pc = newpc, !.trace = @ \o evs]
HookFail(evs) ==
  hook' = [hook EXCEPT !.pc = "done", !.trace = @ \o evs,
                       !.resp = Reply(500, "Webhook processing failed")]

\* token, event and criteria checks, up to the setTimeout
HookReceive ==
  /\ hook.pc = "start"
  /\ LET p == hook.payload IN
     IF ~p.token THEN HookAnswer(Reply(500, "GitHub token not configured"))
     ELSE IF p.action # "opened" THEN HookAnswer(Reply(200, "Event not relevant"))
     ELSE IF ~p.hasPr THEN HookAnswer(Reply(400, "No PR data"))
     ELSE IF ~ShouldAutoMerge(p)
          THEN HookAnswer(Reply(200, "PR does not meet auto-merge criteria"))
     ELSE hook' = [hook EXCEPT !.pc = "wait", !.wake = now + MergeWaitMs,
                               !.trace = Append(@, Ev("mergeWait", "call", 0, Undef))]
  /\ UNCHANGED <<now, refs, pulls, input, pc, inv, trace, resp, pure, blogsDir, n8n, pages>>

HookWaitElapsed ==
  /\ hook.pc = "wait"
  /\ now' = Max(now, hook.wake)
  /\ HookStep("getPull", <<Ev("mergeWait", "ok", 0, Undef)>>)
  /\ UNCHANGED <<refs, pulls, input, pc, inv, trace, resp, pure, blogsDir, n8n, pages>>

HookGetPullIgnoresMergeable ==
  /\ hook.pc = "getPull"
  /\ \E mergeable \in {"true", "false", "null"} :
       HookStep("merge", Call("getPull", TRUE, 0, hook.payload.number, mergeable))
  /\ UNCHANGED <<now, refs, pulls, input, pc, inv, trace, resp, pure, blogsDir, n8n, pages>>

\* pulls.get; the arguments read payload.repository first
HookGetPull ==
  /\ hook.pc = "getPull"
  /\ LET p == hook.payload IN
     IF ~p.hasRepo THEN HookFail(<<>>)
     ELSE \E ok \in BOOLEAN :
            /\ ok => p.number \in 1..Len(pulls)
            /\ IF ok
               THEN \E mergeable \in {"true", "false", "null"} :
                      IF mergeable = "false"
                      THEN hook' = [hook EXCEPT !.pc = "done",
                                      !.trace = @ \o Call("getPull", TRUE, 0, p.number, mergeable),
                                      !.resp = Reply(200, "PR is not mergeable")]
                      ELSE HookStep("merge", Call("getPull", TRUE, 0, p.number, mergeable))
               ELSE HookFail(Call("getPull", FALSE, 0, p.number, Undef))
  /\ UNCHANGED <<now, refs, pulls, input, pc, inv, trace, resp, pure, blogsDir, n8n, pages>>

\* pulls.merge
HookMerge ==
  /\ hook.pc = "merge"
  /\ LET p == hook.payload
         pr == pulls[p.number] IN
     \E ok \in BOOLEAN :
       /\ ok => (~pr.merged /\ pr.base \in DOMAIN refs /\ pr.head \in DOMAIN refs)
       /\ IF ok
          THEN LET sha == Commit(MergeTrees(refs[pr.base].tree, refs[pr.head].tree),
                                 <<refs[pr.base], refs[pr.head]>>) IN
               /\ pulls' = [pulls EXCEPT ![p.number].merged = TRUE]
               /\ refs' = [refs EXCEPT ![pr.base] = sha]
               /\ HookStep("comment", Call("merge", TRUE, 0, p.number, sha))
          ELSE /\ pulls' = pulls
               /\ refs' = refs
               /\ HookFail(Call("merge", FALSE, 0, p.number, Undef))
  /\ UNCHANGED <<now, input, pc, inv, trace, resp, pure, blogsDir, n8n, pages>>

\* issues.createComment, then the success response
HookComment ==
  /\ hook.pc = "comment"
  /\ \E ok \in BOOLEAN :
       IF ok
       THEN hook' = [hook EXCEPT !.pc = "done",
                       !.trace = @ \o Call("createComment", TRUE, 0, hook.payload.number, Undef),
                       !.resp = Reply(200, "PR auto-merged successfully")]
       ELSE HookFail(Call("createComment", FALSE, 0, hook.payload.number, Undef))
  /\ UNCHANGED <<now, refs, pulls, input, pc, inv, trace, resp, pure, blogsDir, n8n, pages>>

\* one webhook delivery with any payload, for an open pull request
InitHook ==
  /\ now = 0
  /\ \E p \in Payloads :
       /\ hook = [HookIdle EXCEPT !.payload = p, !.pc = "start"]
       /\ pulls = <<[PullRequest(p.title, p.head, p.base) EXCEPT !.labels = p.labels]>>
       /\ refs = [b \in {<<"main">>, <<"master">>, p.head} |->
                    IF b = <<"main">> THEN MainHead
                    ELSE IF b = <<"master">> THEN MasterHead
                    ELSE Commit(TreePut(MainTree, <<"a">>, Post(<<"A">>)), <<MainHead>>)]
  /\ input = [r \in Req |-> Idle]
  /\ pc = [r \in Req |-> "idle"]
  /\ inv = [r \in Req |-> InvInit]
  /\ trace = [r \in Req |-> <<>>]
  /\ resp = [r \in Req |-> Undef]
  /\ NoSite
  /\ pure = PureIdle

NextHook ==
  \/ HookReceive
  \/ HookWaitElapsed
  \/ HookGetPull
  \/ HookMerge
  \/ HookComment

SpecHook == InitHook /\ [][NextHook]_vars

\* ------------------------------------- two concurrent publish requests
\* the clock advances between the requests' steps
Tick ==
  /\ now < MaxTicks
  /\ now' = now + 1
  /\ UNCHANGED <<pages, n8n, blogsDir, pure, hook, refs, pulls, input, pc, inv, trace, resp>>

PlainOptions == [labels |-> <<>>, reviewers |-> <<>>, autoMerge |-> FALSE, baseBranch |-> Undef]
RaceInputs == {[env |-> TRUE,
                body |-> [isNull |-> FALSE, blogs |-> [kind |-> "array", list |-> <<Post(t)>>],
                          mode |-> m, batchTitle |-> Undef, options |-> PlainOptions]] :
                 t \in Titles, m \in {Undef, <<"separate">>}}

\* two requests of one post each, in flight at the same time
InitRace ==
  /\ now = 0
  /\ refs = [b \in {<<"main">>, <<"master">>} |-> IF b = <<"main">> THEN MainHead ELSE MasterHead]
  /\ pulls = <<>>
  /\ input \in [Req -> RaceInputs]
  /\ pc = [r \in Req |-> "start"]
  /\ inv = [r \in Req |-> InvInit]
  /\ trace = [r \in Req |-> <<>>]
  /\ resp = [r \in Req |-> Undef]
  /\ NoSite
  /\ hook = HookIdle
  /\ pure = PureIdle

RaceHandler(r) ==
  \/ RouteStart(r)
  \/ RouteValidate(r)
  \/ PublishBlogBegin(r)
  \/ PublishBatchBegin(r)
  \/ GetBranchSHA(r)
  \/ CreateBranch(r)
  \/ GetContent(r)
  \/ PutFile(r)
  \/ GetRef(r)
  \/ GetCommit(r)
  \/ StartBlobs(r)
  \/ BlobDone(r, 1)
  \/ BlobsRejected(r)
  \/ CreateTree(r)
  \/ CreateCommit(r)
  \/ UpdateRef(r)
  \/ CreatePullRequest(r)
  \/ PublishReturn(r)
  \/ PublishCatch(r)
  \/ RouteRespond(r)

NextRace == Tick \/ \E r \in Req : RaceHandler(r)

SpecRace == InitRace /\ [][NextRace]_vars

\* ------------------------------------------------- generateSlug, called twice
StringsUpTo(alphabet, n) == UNION {[1..k -> alphabet] : k \in 0..n}

\* a title one edit away: a character replaced, inserted or removed
Edits(t) ==
  {[t EXCEPT ![k] = c] : k \in 1..Len(t), c \in Chars}
  \cup {SubSeq(t, 1, k) \o <<c>> \o SubSeq(t, k + 1, Len(t)) : k \in 0..Len(t), c \in Chars}
  \cup {SubSeq(t, 1, k - 1) \o SubSeq(t, k + 1, Len(t)) : k \in 1..Len(t)}

InitSlug ==
  /\ now = 0
  /\ refs \in {[b \in {<<"main">>} |-> MainHead]}
  /\ pulls = <<>>
  /\ input = [r \in Req |-> Idle]
  /\ pc = [r \in Req |-> "idle"]
  /\ inv = [r \in Req |-> InvInit]
  /\ trace = [r \in Req |-> <<>>]
  /\ resp = [r \in Req |-> Undef]
  /\ NoSite
  /\ hook = HookIdle
  /\ \E t \in StringsUpTo(Chars, MaxTitleLen) :
       pure = [pc |-> "start", t1 |-> t, s1 |-> <<>>, t2 |-> <<>>, s2 |-> <<>>]

\* a first call, for one post
SlugFirstCall ==
  /\ pure.pc = "start"
  /\ pure' = [pure EXCEPT !.pc = "one", !.s1 = generateSlug(pure.t1)]
  /\ UNCHANGED <<now, refs, pulls, input, pc, inv, trace, resp, hook, blogsDir, n8n, pages>>

\* a later call, for the same or a nearly identical title
SlugSecondCall ==
  /\ pure.pc = "one"
  /\ \E t \in Edits(pure.t1) \cup {pure.t1} :
       pure' = [pure EXCEPT !.pc = "two", !.t2 = t, !.s2 = generateSlug(t)]
  /\ UNCHANGED <<now, refs, pulls, input, pc, inv, trace, resp, hook, blogsDir, n8n, pages>>

NextSlug == SlugFirstCall \/ SlugSecondCall

SpecSlug == InitSlug /\ [][NextSlug]_vars

\* --------------------------------------- convertJsonToMarkdown and its reader
DQ == "\""
NL == "\n"

\* a BlogInput with its values; published is "undefined", "true" or "false"
BlogInput(t, d, a, dt, pub, c) ==
  [Post(t) EXCEPT !.publishedT = IF pub = "undefined" THEN "undefined" ELSE "boolean"]
  @@ [description |-> d, author |-> a, date |-> dt, published |-> pub, content |-> c]

\* Array.prototype.join
RECURSIVE Join(_, _)
Join(parts, sep) ==
  IF parts = <<>> THEN <<>>
  ELSE IF Len(parts) = 1 THEN parts[1]
  ELSE parts[1] \o <<sep>> \o Join(Tail(parts), sep)

\* blog.published ?? true
PublishedOrTrue(blog) == IF blog.published = "undefined" THEN "true" ELSE blog.published

\* the document as a sequence of characters; a key with its colon and space,
\* the '---' delimiter and the words true / false are one token each
convertJsonToMarkdownNoDefault(blog) ==
  Join(<< <<"---">>,
          <<"title: ", DQ>> \o blog.title \o <<DQ>>,
          <<"description: ", DQ>> \o blog.description \o <<DQ>>,
          <<"author: ", DQ>> \o blog.author \o <<DQ>>,
          <<"date: ", DQ>> \o blog.date \o <<DQ>>,
          <<"published: ", blog.published>>,
          <<"---">>,
          <<>> >>, NL) \o blog.content

convertJsonToMarkdown(blog) ==
  LET frontmatter == Join(<< <<"---">>,
                             <<"title: ", DQ>> \o blog.title \o <<DQ>>,
                             <<"description: ", DQ>> \o blog.description \o <<DQ>>,
                             <<"author: ", DQ>> \o blog.author \o <<DQ>>,
                             <<"date: ", DQ>> \o blog.date \o <<DQ>>,
                             <<"published: ", PublishedOrTrue(blog)>>,
                             <<"---">>,
                             <<>> >>, NL)
  IN frontmatter \o blog.content

ParseError == [ok |-> FALSE]

\* a YAML double-quoted scalar, read from position i (just after the opening
\* quote): it ends at the first quote that no backslash escapes; a line break
\* inside it folds into a space
RECURSIVE ScanQuoted(_, _, _)
ScanQuoted(doc, i, acc) ==
  IF i > Len(doc) THEN ParseError
  ELSE IF doc[i] = DQ THEN [ok |-> TRUE, val |-> acc, next |-> i + 1]
  ELSE IF doc[i] = "\\"
       THEN IF i + 1 > Len(doc) \/ doc[i + 1] \notin {"a", DQ, "\\"} THEN ParseError
            ELSE ScanQuoted(doc, i + 2, Append(acc, IF doc[i + 1] = "a" THEN "BEL" ELSE doc[i + 1]))
  ELSE IF doc[i] = NL THEN ScanQuoted(doc, i + 1, Append(acc, " "))
  ELSE ScanQuoted(doc, i + 1, Append(acc, doc[i]))

\* one 'key: "value"' entry at position i; nothing may follow the closing quote
\* on its line
ScanEntry(doc, i, key) ==
  IF i + 1 > Len(doc) \/ doc[i] # key \/ doc[i + 1] # DQ THEN ParseError
  ELSE LET v == ScanQuoted(doc, i + 2, <<>>)
       IN IF ~v.ok THEN ParseError
          ELSE IF v.next > Len(doc) \/ doc[v.next] # NL THEN ParseError
          ELSE [ok |-> TRUE, val |-> v.val, next |-> v.next + 1]

\* the posts collection: the block between the '---' lines is a YAML mapping
\* with string title, description, author, date and boolean published
\* (default true); what follows the closing '---' line is the content
ParseFrontmatter(doc) ==
  IF ~StartsWith(doc, <<"---", NL>>) THEN ParseError
  ELSE
  LET t == ScanEntry(doc, 3, "title: ") IN
  IF ~t.ok THEN ParseError ELSE
  LET d == ScanEntry(doc, t.next, "description: ") IN
  IF ~d.ok THEN ParseError ELSE
  LET a == ScanEntry(doc, d.next, "author: ") IN
  IF ~a.ok THEN ParseError ELSE
  LET dt == ScanEntry(doc, a.next, "date: ") IN
  IF ~dt.ok THEN ParseError ELSE
  LET i == dt.next IN
  IF i + 4 > Len(doc) THEN ParseError
  ELSE IF doc[i] # "published: " \/ doc[i + 1] \notin {"true", "false"} \/ doc[i + 2] # NL
          \/ doc[i + 3] # "---" \/ doc[i + 4] # NL
       THEN ParseError
  ELSE [ok |-> TRUE, title |-> t.val, description |-> d.val, author |-> a.val,
        date |-> dt.val, published |-> (doc[i + 1] = "true"),
        content |-> SubSeq(doc, i + 5, Len(doc))]

InitMarkdown ==
  /\ now = 0
  /\ refs \in {[b \in {<<"main">>} |-> MainHead]}
  /\ pulls = <<>>
  /\ input = [r \in Req |-> Idle]
  /\ pc = [r \in Req |-> "idle"]
  /\ inv = [r \in Req |-> InvInit]
  /\ trace = [r \in Req |-> <<>>]
  /\ resp = [r \in Req |-> Undef]
  /\ NoSite
  /\ hook = HookIdle
  /\ \E t \in StringsUpTo({"a", DQ, "\\"}, MaxFieldLen), d \in {<<"a">>, <<"\\">>},
        dt \in {<<"a">>, <<DQ>>}, pub \in {"undefined", "true", "false"},
        c \in {<<>>, <<"a">>, <<"a", NL, "a">>, <<"---", NL, "a">>} :
       pure = [pc |-> "blog", blog |-> BlogInput(t, d, <<"a">>, dt, pub, c),
               md |-> <<>>, parsed |-> ParseError]

\* the publisher serializes the post
MdConvert ==
  /\ pure.pc = "blog"
  /\ validateBlogInput(pure.blog) = "true"
  /\ pure' = [pure EXCEPT !.pc = "written", !.md = convertJsonToMarkdown(pure.blog)]
  /\ UNCHANGED <<now, refs, pulls, input, pc, inv, trace, resp, hook, blogsDir, n8n, pages>>

\* the front end reads the file back
MdParse ==
  /\ pure.pc = "written"
  /\ pure' = [pure EXCEPT !.pc = "read", !.parsed = ParseFrontmatter(pure.md)]
  /\ UNCHANGED <<now, refs, pulls, input, pc, inv, trace, resp, hook, blogsDir, n8n, pages>>

NextMarkdown == MdConvert \/ MdParse

SpecMarkdown == InitMarkdown /\ [][NextMarkdown]_vars

InitMerge ==
  /\ now = 0
  /\ refs = [b \in {<<"main">>, <<"master">>} |-> IF b = <<"main">> THEN MainHead ELSE MasterHead]
  /\ pulls = <<>>
  /\ \E t \in Titles, ls \in {<<>>, <<"automated">>} :
       input = [r \in Req |->
                  IF r = 1
                  THEN [env |-> TRUE,
                        body |-> [isNull |-> FALSE,
                                  blogs |-> [kind |-> "array", list |-> <<Post(t)>>],
                                  mode |-> <<"separate">>, batchTitle |-> Undef,
                                  options |-> [PlainOptions EXCEPT !.autoMerge = TRUE,
                                                                   !.labels = ls]]]
                  ELSE Idle]
  /\ pc = [r \in Req |-> IF r = 1 THEN "start" ELSE "idle"]
  /\ inv = [r \in Req |-> InvInit]
  /\ trace = [r \in Req |-> <<>>]
  /\ resp = [r \in Req |-> Undef]
  /\ NoSite
  /\ hook = HookIdle
  /\ pure = PureIdle

\* GitHub delivers the pull_request 'opened' event of the pull request the
\* publisher created: the title, refs and (no) labels it was opened with, and
\* its author, the owner of the publisher's token
HookDeliver ==
  /\ hook.pc = "idle"
  /\ Len(pulls) >= 1
  /\ \E user \in {AutomatedAccount, "octocat"} :
       hook' = [HookIdle EXCEPT
                  !.pc = "start",
                  !.payload = [token |-> TRUE, action |-> "opened", hasPr |-> TRUE,
                               hasRepo |-> TRUE, number |-> 1, title |-> pulls[1].title,
                               labels |-> <<>>, user |-> user, base |-> pulls[1].base,
                               head |-> pulls[1].head]]
  /\ UNCHANGED <<now, refs, pulls, input, pc, inv, trace, resp, pure, blogsDir, n8n, pages>>

MergeHandler(r) ==
  \/ RouteStart(r)
  \/ RouteValidate(r)
  \/ PublishBlogBegin(r)
  \/ GetBranchSHA(r)
  \/ CreateBranch(r)
  \/ GetContent(r)
  \/ PutFile(r)
  \/ CreatePullRequest(r)
  \/ AddLabels(r)
  \/ MergeWaitElapsed(r)
  \/ MergePullRequest(r)
  \/ PublishReturn(r)
  \/ PublishCatch(r)
  \/ RouteRespond(r)

NextMerge ==
  \/ MergeHandler(1)
  \/ HookDeliver
  \/ HookReceive
  \/ HookWaitElapsed
  \/ HookGetPull
  \/ HookMerge
  \/ HookComment

SpecMerge == InitMerge /\ [][NextMerge]_vars

\* ------------------------------------------- POST /api/webhook/n8n (front end)
\* json-blog-service generateSlug and the route's inline copy of it:
\* .replace(/[\s_-]+/g, '-')
RECURSIVE ReplaceSeparatorRuns(_)
ReplaceSeparatorRuns(s) ==
  IF s = <<>> THEN <<>>
  ELSE IF Head(s) \in SpaceCh \cup {"_", "-"}
       THEN IF Len(s) > 1 /\ s[2] \in SpaceCh \cup {"_", "-"}
            THEN ReplaceSeparatorRuns(Tail(s))
            ELSE <<"-">> \o ReplaceSeparatorRuns(Tail(s))
       ELSE <<Head(s)>> \o ReplaceSeparatorRuns(Tail(s))

\* .replace(/^-+|-+$/g, '')
RECURSIVE StripHyphens(_)
StripHyphens(s) ==
  IF s # <<>> /\ Head(s) = "-" THEN StripHyphens(Tail(s))
  ELSE IF s # <<>> /\ s[Len(s)] = "-" THEN StripHyphens(SubSeq(s, 1, Len(s) - 1))
  ELSE s

generateSlugJson(title) ==
  LET lower == Trim([i \in 1..Len(title) |-> toLowerCase(title[i])])
      kept  == SeqFilter(lower, WordCh \cup SpaceCh \cup {"-"})
  IN StripHyphens(ReplaceSeparatorRuns(kept))

\* an element of all_blog_posts; an empty title or blog_post is falsy
N8nItem(title, blogPost) == [hasOutput |-> TRUE, title |-> title, blog_post |-> blogPost]
N8nItems == {N8nItem(<<"A">>, <<"x">>), N8nItem(<<"b">>, <<"y">>), N8nItem(<<>>, <<"x">>),
             [hasOutput |-> FALSE]}
\* all_blog_posts array / single output / neither / a body that is not JSON
N8nPayloads ==
  [kind : {"all"}, items : UNION {[1..n -> N8nItems] : n \in 0..MaxPosts}]
  \cup [kind : {"single"}, items : {<<i>> : i \in {j \in N8nItems : j.hasOutput}}]
  \cup {[kind |-> "none", items |-> <<>>], [kind |-> "badJson", items |-> <<>>]}

N8nReply(status, success, filename, items) ==
  [status |-> status, success |-> success, filename |-> filename, postsCount |-> Len(items),
   posts |-> [k \in 1..Len(items) |->
                [index |-> k - 1, title |-> items[k].title,
                 slug |-> generateSlugJson(items[k].title)]]]

\* writeFileSync: creates the file or replaces its whole content
WriteFileSync(files, name, items) ==
  {f \in files : f.name # name} \cup {[name |-> name, items |-> items]}

\* await request.json()
N8nStart(r) ==
  /\ n8n[r].pc = "start"
  /\ IF n8n[r].payload.kind = "badJson"
     THEN n8n' = [n8n EXCEPT ![r].pc = "done", ![r].resp = N8nReply(500, FALSE, Undef, <<>>)]
     ELSE n8n' = [n8n EXCEPT ![r].pc = "body"]
  /\ UNCHANGED <<now, refs, pulls, input, pc, inv, trace, resp, hook, pure, blogsDir, pages>>

\* the rest of the handler, which has no further await: mkdir, file name from
\* the clock, payload format, validation, write, response
N8nHandle(r) ==
  /\ n8n[r].pc = "body"
  /\ LET body == n8n[r].payload
         timestamp == now \div 1000
         filename == <<"n8n_blog_posts_", timestamp, ".json">>
     IN IF body.kind = "none" \/ \E k \in 1..Len(body.items) :
                                    \/ ~body.items[k].hasOutput
                                    \/ body.items[k].title = <<>>
                                    \/ body.items[k].blog_post = <<>>
        THEN /\ n8n' = [n8n EXCEPT ![r].pc = "done",
                                       ![r].resp = N8nReply(400, FALSE, Undef, <<>>)]
             /\ blogsDir' = [blogsDir EXCEPT !.exists = TRUE]
        ELSE /\ blogsDir' = [exists |-> TRUE,
                             files |-> WriteFileSync(blogsDir.files, filename, body.items)]
             /\ n8n' = [n8n EXCEPT ![r].pc = "done",
                                       ![r].resp = N8nReply(200, TRUE, filename, body.items)]
  /\ UNCHANGED <<now, refs, pulls, input, pc, inv, trace, resp, hook, pure, pages>>

\* ---------------------------------------------------- json-blog-service
\* marked(): Markdown rendered to HTML
Marked(markdown) == [html |-> markdown]

\* the YYYYMMDD run of the file name, as a day number
extractDateFromFilename(name) == name[2] \div 86400

\* processJsonFile: one post per element that has an output
RECURSIVE processJsonFile(_, _)
processJsonFile(items, name) ==
  IF items = <<>> THEN <<>>
  ELSE LET output == Head(items)
            title == IF output.title # <<>> THEN output.title ELSE <<"Untitled Post">>
            slug == generateSlugJson(title)
       IN (IF ~output.hasOutput THEN <<>>
           ELSE <<[title |-> title, author |-> "AI Generated",
                   date |-> extractDateFromFilename(name), published |-> TRUE,
                   slug |-> slug, url |-> <<"/blog/", slug>>,
                   html |-> Marked(output.blog_post)]>>)
          \o processJsonFile(Tail(items), name)

\* readdirSync lists the files in name order
RECURSIVE ReadFiles(_)
ReadFiles(files) ==
  IF files = {} THEN <<>>
  ELSE LET first == CHOOSE f \in files : \A g \in files : f.name[2] <= g.name[2]
       IN processJsonFile(first.items, first.name) \o ReadFiles(files \ {first})

\* a missing directory makes readdirSync throw, which is caught
getAllJsonBlogPosts(dir) == IF dir.exists THEN ReadFiles(dir.files) ELSE <<>>

\* ------------------------------------------- n8n requests and the clock
InitN8n ==
  /\ now = 0
  /\ refs \in {[b \in {<<"main">>} |-> MainHead]}
  /\ pulls = <<>>
  /\ input = [r \in Req |-> Idle]
  /\ pc = [r \in Req |-> "idle"]
  /\ inv = [r \in Req |-> InvInit]
  /\ trace = [r \in Req |-> <<>>]
  /\ hook = HookIdle
  /\ pure = PureIdle
  /\ resp \in {[r \in Req |-> Undef]}
  /\ blogsDir = NoDir
  /\ n8n \in [Req -> {[N8nIdle EXCEPT !.pc = "start", !.payload = p] : p \in N8nPayloads}]
  /\ pages = NoPages

N8nTick ==
  /\ now < MaxHalfSeconds * HalfSecondMs
  /\ now' = now + HalfSecondMs
  /\ UNCHANGED <<refs, pulls, input, pc, inv, trace, resp, hook, pure, blogsDir, n8n, pages>>

NextN8n ==
  \/ N8nTick
  \/ \E r \in Req : N8nStart(r) \/ N8nHandle(r)

SpecN8n == InitN8n /\ [][NextN8n]_vars

\* ------------------------------------------------- the blog pages (front end)
\* a post of the generated Markdown collection: slug from the file path
MarkdownPost(slug, day) ==
  [title |-> slug, author |-> "editor", date |-> day, published |-> TRUE, slug |-> slug,
   url |-> <<"/blog/", slug>>, html |-> Marked(slug), content |-> slug,
   meta |-> [path |-> slug]]

\* normalizePost: a collection post without its content and _meta
normalizePost(post) ==
  IF "meta" \notin DOMAIN post /\ "content" \notin DOMAIN post THEN post
  ELSE [title |-> post.title, author |-> post.author, date |-> post.date,
        published |-> post.published, slug |-> post.slug, url |-> post.url,
        html |-> post.html]

uniqueJsonPostsUnfiltered(allPosts, jsonPosts) == jsonPosts

\* jsonPosts.filter(post => !markdownSlugs.has(post.slug))
uniqueJsonPosts(allPosts, jsonPosts) ==
  LET markdownSlugs == {allPosts[k].slug : k \in 1..Len(allPosts)}
      keep == {k \in 1..Len(jsonPosts) : jsonPosts[k].slug \notin markdownSlugs}
      RECURSIVE Filter(_)
      Filter(k) == IF k > Len(jsonPosts) THEN <<>>
                   ELSE (IF k \in keep THEN <<jsonPosts[k]>> ELSE <<>>) \o Filter(k + 1)
  IN Filter(1)

\* Array.prototype.sort by date, newest first; posts of one date keep their order
RECURSIVE InsertByDate(_, _)
InsertByDate(sorted, post) ==
  IF sorted = <<>> THEN <<post>>
  ELSE IF Head(sorted).date >= post.date THEN <<Head(sorted)>> \o InsertByDate(Tail(sorted), post)
  ELSE <<post>> \o sorted
RECURSIVE SortByDate(_)
SortByDate(posts) ==
  IF posts = <<>> THEN <<>>
  ELSE InsertByDate(SortByDate(SubSeq(posts, 1, Len(posts) - 1)), posts[Len(posts)])

\* Array.prototype.find on post.slug === slug
Find(posts, slug) ==
  IF \E k \in 1..Len(posts) : posts[k].slug = slug
  THEN posts[CHOOSE k \in 1..Len(posts) :
               posts[k].slug = slug /\ \A j \in 1..(k - 1) : posts[j].slug # slug]
  ELSE Undef

\* BlogPage: the merged, sorted listing and the page of it that is shown
BlogPage ==
  /\ \E currentPage \in {1, 2} :
       LET jsonPosts == getAllJsonBlogPosts(blogsDir)
           allMergedPosts == pages.allPosts \o uniqueJsonPosts(pages.allPosts, jsonPosts)
           sortedPosts == SortByDate(allMergedPosts)
           postsPerPage == 20
           startIndex == (currentPage - 1) * postsPerPage
           endIndex == startIndex + postsPerPage
       IN pages' = [pages EXCEPT !.sortedPosts = sortedPosts,
                                 !.currentPosts = SubSeq(sortedPosts, startIndex + 1,
                                                         IF endIndex < Len(sortedPosts)
                                                         THEN endIndex ELSE Len(sortedPosts))]
  /\ UNCHANGED <<now, refs, pulls, input, pc, inv, trace, resp, hook, pure, blogsDir, n8n>>

\* BlogPostPage: the Markdown collection first, then the JSON posts
BlogPostPage ==
  /\ \E slug \in {<<"a">>, <<"b">>, <<"z">>} :
       LET markdownPost == Find(pages.allPosts, slug)
           post == IF markdownPost # Undef THEN normalizePost(markdownPost)
                   ELSE Find(getAllJsonBlogPosts(blogsDir), slug)
       IN pages' = [pages EXCEPT !.slug = slug, !.post = post]
  /\ UNCHANGED <<now, refs, pulls, input, pc, inv, trace, resp, hook, pure, blogsDir, n8n>>

StaticRoutes == << <<"/">>, <<"/blog">>, <<"/blog-v2">>, <<"/admin">> >>

\* sitemap: the static routes, then one route per post
Sitemap ==
  /\ LET jsonPosts == getAllJsonBlogPosts(blogsDir)
         markdownPosts == [k \in 1..Len(pages.allPosts) |-> normalizePost(pages.allPosts[k])]
         allBlogPosts == markdownPosts \o uniqueJsonPosts(markdownPosts, jsonPosts)
         staticRoutes == [k \in 1..Len(StaticRoutes) |->
                            [url |-> StaticRoutes[k], lastModified |-> now]]
         blogRoutes == [k \in 1..Len(allBlogPosts) |->
                          [url |-> allBlogPosts[k].url, lastModified |-> allBlogPosts[k].date]]
     IN pages' = [pages EXCEPT !.sitemap = staticRoutes \o blogRoutes]
  /\ UNCHANGED <<now, refs, pulls, input, pc, inv, trace, resp, hook, pure, blogsDir, n8n>>

\* a built site with some Markdown collection, and one n8n delivery
InitBlog ==
  /\ now = 0
  /\ refs \in {[b \in {<<"main">>} |-> MainHead]}
  /\ pulls = <<>>
  /\ input = [r \in Req |-> Idle]
  /\ pc = [r \in Req |-> "idle"]
  /\ inv = [r \in Req |-> InvInit]
  /\ trace = [r \in Req |-> <<>>]
  /\ hook = HookIdle
  /\ pure = PureIdle
  /\ resp \in {[r \in Req |-> Undef]}
  /\ blogsDir = NoDir
  /\ \E p \in N8nPayloads :
       n8n = [r \in Req |-> IF r = 1 THEN [N8nIdle EXCEPT !.pc = "start", !.payload = p]
                            ELSE N8nIdle]
  /\ \E c \in {<<>>, <<MarkdownPost(<<"a">>, 0)>>, <<MarkdownPost(<<"z">>, 1)>>,
              <<MarkdownPost(<<"a">>, 0), MarkdownPost(<<"z">>, 1)>>} :
       pages = [NoPages EXCEPT !.allPosts = c]

NextBlog ==
  \/ N8nStart(1)
  \/ N8nHandle(1)
  \/ BlogPage
  \/ BlogPostPage
  \/ Sitemap

SpecBlog == InitBlog /\ [][NextBlog]_vars

\* ================================================================ claims
Events(r) == 1..Len(trace[r])
ProviderCall(e) == e.ev = "call" /\ e.op \notin {"delay", "mergeWait"}
Failure(e) == e.ev = "fail"

\* C1 (as stated): once any provider call of a publishing request has failed,
\* the request issues no further provider call and answers unsuccessfully.
C1_AnyFailureAborts ==
  \A r \in Req :
    /\ \A i, j \in Events(r) :
         (i < j /\ Failure(trace[r][i])) => ~ProviderCall(trace[r][j])
    /\ (pc[r] = "done" /\ \E i \in Events(r) : Failure(trace[r][i])) => ~resp[r].success

\* the failures the code catches and continues after: the lookup of 'main'
\* (retried on 'master'), the existing-file lookup, and the auto-merge
Tolerated(e) ==
  \/ e.op = "getBranch" /\ e.val = <<"main">>
  \/ e.op = "getContent"
  \/ e.op = "merge"
Fatal(e) == Failure(e) /\ ~Tolerated(e)

\* C1 (amended): once a provider call other than the 'main' lookup, the
\* existing-file lookup or the auto-merge has failed, no further provider call is
\* issued for that post (or batch), that post's (or batch's) result is
\* unsuccessful, and so is the response; later posts of a separate-mode
\* request are still published.
C1_FatalFailureAbortsPost ==
  \A r \in Req :
    /\ \A i, j \in Events(r) :
         (i < j /\ Fatal(trace[r][i]) /\ ProviderCall(trace[r][j]))
           => trace[r][j].post > trace[r][i].post
    /\ \A i \in Events(r) :
         Fatal(trace[r][i]) =>
           LET p == trace[r][i].post IN
           /\ (p > 0 /\ Len(inv[r].results) >= p) => ~inv[r].results[p].success
           /\ (p = 0 /\ inv[r].result # Undef) => ~inv[r].result.success
    /\ (pc[r] = "done" /\ \E i \in Events(r) : Fatal(trace[r][i])) => ~resp[r].success

\* a request has been answered after one of its calls failed fatally
C1_Witness ==
  \E r \in Req :
    /\ pc[r] = "done"
    /\ \E i \in Events(r) : Fatal(trace[r][i]) /\ trace[r][i].op = "createPullRequest"
    /\ ~resp[r].success

\* ------------------------------------------------------------------- C2
HookCalled(op) == \E k \in 1..Len(hook.trace) : hook.trace[k].op = op /\ hook.trace[k].ev = "call"

\* C2 (as stated): the webhook handler calls merge only when the title has the
\* blog-post prefix AND the PR has an auto-merge label AND its author is the
\* automated account.
C2_MergeOnlyIfAllThree ==
  HookCalled("merge") =>
    /\ IsBlogPost(hook.payload)
    /\ HasAutoMergeLabel(hook.payload)
    /\ hook.payload.user = AutomatedAccount

\* C2 (amended): the webhook handler calls merge only when the title has the
\* blog-post prefix and at least one of the other two conditions holds: the PR
\* has an auto-merge label, or its author is the automated account.
C2_MergeOnlyIfTitleAndLabelOrAuthor ==
  HookCalled("merge") =>
    /\ IsBlogPost(hook.payload)
    /\ (HasAutoMergeLabel(hook.payload) \/ hook.payload.user = AutomatedAccount)

\* merge was called for a labelled PR of another author
C2_Witness ==
  /\ HookCalled("merge")
  /\ HasAutoMergeLabel(hook.payload)
  /\ hook.payload.user # AutomatedAccount

\* ------------------------------------------------------------------- C3
IsEv(e, op, ev) == e.op = op /\ e.ev = ev

\* C3: in createMultipleFiles, createTree is called only after every blob
\* upload has succeeded (in whatever order they completed) and is passed the
\* blob SHAs they returned; createCommit is called only after createTree
\* returned and is passed its tree SHA; updateRef is called only after
\* createCommit returned and is passed its commit SHA.
C3_FanOutThenChain ==
  \A r \in Req : \A j \in Events(r) :
    LET e == trace[r][j] IN
    /\ IsEv(e, "createTree", "call") =>
         /\ Len(e.val) = Len(Blogs(r))
         /\ \A k \in 1..Len(Blogs(r)) :
              \E i \in 1..(j - 1) :
                /\ IsEv(trace[r][i], "createBlob", "ok")
                /\ trace[r][i].val.k = k
                /\ e.val[k].sha = trace[r][i].val.sha
    /\ IsEv(e, "createCommit", "call") =>
         /\ IsEv(trace[r][j - 1], "createTree", "ok")
         /\ e.val = trace[r][j - 1].val
    /\ IsEv(e, "updateRef", "call") =>
         /\ IsEv(trace[r][j - 1], "createCommit", "ok")
         /\ e.val = trace[r][j - 1].val

\* the ref was updated after the second blob completed before the first
C3_Witness ==
  \E r \in Req : \E i, j, u \in Events(r) :
    /\ i < j /\ j < u
    /\ IsEv(trace[r][i], "createBlob", "ok") /\ trace[r][i].val.k = 2
    /\ IsEv(trace[r][j], "createBlob", "ok") /\ trace[r][j].val.k = 1
    /\ IsEv(trace[r][u], "updateRef", "ok")

\* ------------------------------------------------------------------- C4
CountEv(r, op, ev) == Cardinality({i \in Events(r) : IsEv(trace[r][i], op, ev)})
BatchSucceeded(r) == inv[r].batch /\ inv[r].result # Undef /\ inv[r].result.success

\* C4: a successful batch publish of N >= 1 posts has created exactly one
\* branch, exactly one commit on it (its parent is the base commit) and
\* exactly one pull request, whatever N is.
C4_BatchOneBranchCommitPr ==
  \A r \in Req :
    BatchSucceeded(r) =>
      /\ CountEv(r, "createRef", "ok") = 1
      /\ CountEv(r, "createCommit", "ok") = 1
      /\ CountEv(r, "updateRef", "ok") = 1
      /\ CountEv(r, "createPullRequest", "ok") = 1
      /\ Cardinality(DOMAIN refs \ {<<"main">>, <<"master">>}) = 1
      /\ refs[inv[r].branch].parents = <<inv[r].baseSha>>
      /\ Len(pulls) = 1
      /\ pulls[1].head = inv[r].branch

\* a batch of two posts was published successfully
C4_Witness ==
  \E r \in Req : BatchSucceeded(r) /\ Len(Blogs(r)) = 2 /\ pc[r] = "done"

\* ------------------------------------------------------------------- C5
\* C5: a branch created by a publish invocation is never deleted again: it
\* exists in every later state, also after a later step of the invocation has
\* failed and the invocation has returned; no deleteRef call is ever issued.
C5_NoRollback ==
  \A r \in Req : \A i \in Events(r) :
    /\ IsEv(trace[r][i], "createRef", "ok") => trace[r][i].val \in DOMAIN refs
    /\ trace[r][i].op # "deleteRef"

\* an invocation returned a failure after it had created its branch
C5_Witness ==
  \E r \in Req :
    /\ pc[r] = "done"
    /\ ~resp[r].success
    /\ \E i \in Events(r) : IsEv(trace[r][i], "createRef", "ok")
    /\ \E i \in Events(r) : IsEv(trace[r][i], "createPullRequest", "fail")

\* ------------------------------------------------------------------- C6
Started(r) == inv[r].branch # <<>>
SameSubmission(r1, r2) ==
  /\ Blogs(r1) = Blogs(r2)
  /\ SelectMode(input[r1].body) = SelectMode(input[r2].body)

\* C6: two publish invocations of the same post (same title, same mode)
\* always compute different branch names.
C6_DistinctBranchNames ==
  \A r1, r2 \in Req :
    (r1 # r2 /\ Started(r1) /\ Started(r2) /\ SameSubmission(r1, r2))
      => inv[r1].branch # inv[r2].branch

\* ------------------------------------------------------------------- C7
\* the result the publisher returned for post p (p = 0: the batch), if any
Returned(r, p) == IF p = 0 THEN inv[r].result # Undef ELSE Len(inv[r].results) >= p
ResultOf(r, p) == IF p = 0 THEN inv[r].result ELSE inv[r].results[p]
\* the same result as serialised in the response body
BodyResultOf(r, p) == IF p = 0 THEN resp[r].result ELSE resp[r].results[p]

\* C7 (as stated): whenever a pull request was created during a publish
\* invocation, the result returned for that post or batch carries its URL.
C7_PrUrlWheneverPrCreated ==
  \A r \in Req : \A i \in Events(r) :
    IsEv(trace[r][i], "createPullRequest", "ok") =>
      LET p == trace[r][i].post
          n == trace[r][i].val IN
      /\ Returned(r, p) => ResultOf(r, p).prUrl = Url(n)
      /\ (pc[r] = "done" /\ Returned(r, p)) => BodyResultOf(r, p).prUrl = Url(n)

LabelStepFailed(r, p) ==
  \E i \in Events(r) :
    /\ Failure(trace[r][i])
    /\ trace[r][i].op \in {"addLabels", "addReviewers"}
    /\ trace[r][i].post = p

\* C7 (amended): whenever a pull request was created during a publish
\* invocation and no later addLabels or addReviewers call of that post or
\* batch failed, the result returned for it, and the response, carry its URL;
\* when such a later call failed, the result is a failure without prUrl.
C7_PrUrlUnlessLabelStepFailed ==
  \A r \in Req : \A i \in Events(r) :
    IsEv(trace[r][i], "createPullRequest", "ok") =>
      LET p == trace[r][i].post
          n == trace[r][i].val
          url == IF LabelStepFailed(r, p) THEN Undef ELSE Url(n) IN
      /\ Returned(r, p) => /\ ResultOf(r, p).prUrl = url
                           /\ ResultOf(r, p).success = ~LabelStepFailed(r, p)
      /\ (pc[r] = "done" /\ Returned(r, p)) => BodyResultOf(r, p).prUrl = url

\* a separate-mode request was answered with the URL of a PR whose merge failed
C7_Witness ==
  \E r \in Req :
    /\ pc[r] = "done"
    /\ \E i \in Events(r) : IsEv(trace[r][i], "createPullRequest", "ok")
    /\ \E i \in Events(r) : IsEv(trace[r][i], "merge", "fail")
    /\ resp[r].results # Undef
    /\ resp[r].results[1].prUrl = Url(1)

\* ------------------------------------------------------------------- C8
InvalidShape(body) ==
  \/ body.blogs.kind # "array"
  \/ body.blogs.list = <<>>
  \/ \E k \in 1..Len(body.blogs.list) : validateBlogInput(body.blogs.list[k]) # "true"

\* C8: a request (to a configured server, with a JSON object as body) whose
\* blogs is missing, not an array, empty or holds an element that does not
\* pass validateBlogInput is answered with 400, naming the first failing index
\* for an invalid element, and makes no provider call.
C8_InvalidInputIs400 ==
  \A r \in Req :
    (pc[r] = "done" /\ input[r].env /\ ~input[r].body.isNull /\ InvalidShape(input[r].body)) =>
      /\ resp[r].status = 400
      /\ (input[r].body.blogs.list # <<>>) =>
           resp[r].errorIndex = FirstBad(input[r].body.blogs.list, 1).idx - 1
      /\ trace[r] = <<>>

\* ------------------------------------------------------------------- C9
\* C9: in publishMultipleBlogs, a post's provider calls start only after the
\* delay that follows the previous post has elapsed; N posts give N - 1
\* delays, none after the last post, and none for a single post.
C9_DelaysOnlyBetweenPosts ==
  \A r \in Req :
    (pc[r] # "idle" /\ ~inv[r].batch) =>
      /\ \A j \in Events(r) :
           (ProviderCall(trace[r][j]) /\ trace[r][j].post > 1) =>
             \E i \in 1..(j - 1) :
               IsEv(trace[r][i], "delay", "ok") /\ trace[r][i].post = trace[r][j].post - 1
      /\ pc[r] = "done" /\ resp[r].results # Undef =>
           /\ CountEv(r, "delay", "call") = Len(Blogs(r)) - 1
           /\ \A i \in Events(r) : trace[r][i].op = "delay" => trace[r][i].post < Len(Blogs(r))

\* ------------------------------------------------------------------ C10
\* C10: a successful request with one valid blog and no mode field returns a
\* body whose results[0].prUrl is the URL of the created pull request.
C10_ReadmeSingleBlogPrUrl ==
  \A r \in Req :
    (pc[r] = "done" /\ resp[r].success /\ Len(Blogs(r)) = 1 /\ input[r].body.mode = Undef) =>
      \E i \in Events(r) :
        /\ IsEv(trace[r][i], "createPullRequest", "ok")
        /\ ReadmePrUrl(resp[r]) = Url(trace[r][i].val)

\* C11: for every BlogInput that validateBlogInput accepts, reading the output
\* of convertJsonToMarkdown back as a frontmatter document yields the same
\* title, description, author, date, published and content.
C11_MarkdownRoundTrip ==
  pure.pc = "read" =>
    /\ pure.parsed.ok
    /\ pure.parsed.title = pure.blog.title
    /\ pure.parsed.description = pure.blog.description
    /\ pure.parsed.author = pure.blog.author
    /\ pure.parsed.date = pure.blog.date
    /\ pure.parsed.published = (PublishedOrTrue(pure.blog) = "true")
    /\ pure.parsed.content = pure.blog.content

\* positions of a token in a document
Positions(doc, tok) == {k \in 1..Len(doc) : doc[k] = tok}
PositionOf(doc, tok) == CHOOSE k \in Positions(doc, tok) : TRUE
FrontmatterKeys == <<"title: ", "description: ", "author: ", "date: ", "published: ">>

\* C12: the document opens with a '---' line; the keys title, description,
\* author, date, published follow once each, in that order, each at the start
\* of a line; after the published line comes a '---' line and then the content,
\* unchanged, to the end of the document; published reads true when the input
\* omits it and is the given boolean otherwise.
C12_FrontmatterLayout ==
  pure.pc \in {"written", "read"} =>
    LET doc == pure.md
        at(j) == PositionOf(doc, FrontmatterKeys[j])
        p == at(5)
    IN /\ StartsWith(doc, <<"---", NL>>)
       /\ \A j \in 1..5 : Cardinality(Positions(doc, FrontmatterKeys[j])) = 1
       /\ \A j \in 1..5 : doc[at(j) - 1] = NL
       /\ at(1) = 3
       /\ \A j \in 1..4 : at(j) < at(j + 1)
       /\ Len(doc) >= p + 4
       /\ SubSeq(doc, p + 2, p + 4) = <<NL, "---", NL>>
       /\ SubSeq(doc, p + 5, Len(doc)) = pure.blog.content
       /\ doc[p + 1] = (IF pure.blog.published = "false" THEN "false" ELSE "true")

C12_Witness ==
  /\ pure.pc = "written"
  /\ pure.blog.published = "undefined"
  /\ pure.blog.content = <<"---", NL, "a">>
  /\ pure.blog.title = <<"a", DQ>>

\* every maximal run of separator characters becomes one hyphen
RECURSIVE CollapseRuns(_, _)
CollapseRuns(s, seps) ==
  IF s = <<>> THEN <<>>
  ELSE IF Head(s) \in seps
       THEN IF Len(s) > 1 /\ s[2] \in seps
            THEN CollapseRuns(Tail(s), seps)
            ELSE <<"-">> \o CollapseRuns(Tail(s), seps)
       ELSE <<Head(s)>> \o CollapseRuns(Tail(s), seps)

SmallLetter == [c \in Chars |-> IF c = "A" THEN "a" ELSE IF c = "B" THEN "b" ELSE c]
Lowered(t) == [k \in 1..Len(t) |-> SmallLetter[t[k]]]

\* the transform as stated: non-word characters go, runs of whitespace
\* and/or underscores become one hyphen
ReferenceSlug(t) ==
  CollapseRuns(SeqFilter(Lowered(t), WordCh \cup SpaceCh), SpaceCh \cup {"_"})

\* hyphens survive the stripping and join the runs; underscores are kept
HyphenReferenceSlug(t) ==
  CollapseRuns(SeqFilter(Lowered(t), WordCh \cup SpaceCh \cup {"-"}), SpaceCh \cup {"-"})

\* C13 as stated: generateSlug(title) is the title lowercased, stripped of every
\* non-word character, with every run of whitespace and/or underscores
\* collapsed into one hyphen.
C13_SlugEqualsReference ==
  pure.pc # "start" => pure.s1 = ReferenceSlug(pure.t1)

\* C13 amended: generateSlug(title) is the title lowercased, stripped of every
\* character that is neither a word character, whitespace nor a hyphen, with
\* every run of whitespace and/or hyphens collapsed into one hyphen;
\* underscores are kept.
C13_SlugEqualsHyphenReference ==
  pure.pc # "start" => pure.s1 = HyphenReferenceSlug(pure.t1)

C13_Witness ==
  /\ pure.pc = "one"
  /\ pure.t1 = <<" ", "-", "_">>
  /\ pure.s1 = <<"-", "_">>

\* a title without its letter case and without the punctuation the slug drops
Fold(t) == SeqFilter(Lowered(t), WordCh \cup SpaceCh \cup {"-"})

\* C14: two calls of generateSlug, whenever made, return the same slug (and so
\* the same file path) for the same title and for two titles that differ only
\* in letter case or in stripped punctuation.
C14_SlugFunctionOfFoldedTitle ==
  (pure.pc = "two" /\ Fold(pure.t1) = Fold(pure.t2)) =>
    /\ pure.s1 = pure.s2
    /\ FilePath(pure.s1) = FilePath(pure.s2)

\* two distinct titles collide
C14_Witness ==
  /\ pure.pc = "two"
  /\ pure.t1 = <<"A", "b">>
  /\ pure.t2 = <<"A", "!", "b">>
  /\ pure.s1 = pure.s2
  /\ FilePath(pure.s1) = FilePath(pure.s2)

\* ------------------------------------------------------------------- C15
\* an earlier call of op for post p has succeeded before event k
OkBefore(r, p, op, k) ==
  \E j \in 1..(k - 1) : IsEv(trace[r][j], op, "ok") /\ trace[r][j].post = p

CallsOf(r, p, op) ==
  {k \in Events(r) : IsEv(trace[r][k], op, "call") /\ trace[r][k].post = p}

\* C15: publishBlog calls createBranch, createOrUpdateFile, createPullRequest,
\* addLabels (only with labels), addReviewers (only with reviewers) and
\* mergePullRequest (only with autoMerge) in that order, at most once each per
\* post, each only after the previous one succeeded: labels and reviewers only
\* once the pull request exists, the merge only once the labels and reviewers
\* steps that apply have succeeded.
C15_PublishBlogCallOrder ==
  \A r \in Req : \A k \in Events(r) :
    LET e == trace[r][k]
        p == e.post
        o == Opts(r)
    IN (~inv[r].batch /\ e.ev = "call" /\ p >= 1) =>
         /\ e.op = "createRef" => OkBefore(r, p, "getBranch", k)
         /\ e.op \in {"getContent", "putFile"} => OkBefore(r, p, "createRef", k)
         /\ e.op = "createPullRequest" => OkBefore(r, p, "putFile", k)
         /\ e.op = "addLabels" =>
              o.labels # <<>> /\ OkBefore(r, p, "createPullRequest", k)
         /\ e.op = "addReviewers" =>
              /\ o.reviewers # <<>>
              /\ OkBefore(r, p, "createPullRequest", k)
              /\ o.labels # <<>> => OkBefore(r, p, "addLabels", k)
         /\ e.op = "merge" =>
              /\ o.autoMerge
              /\ OkBefore(r, p, "createPullRequest", k)
              /\ o.labels # <<>> => OkBefore(r, p, "addLabels", k)
              /\ o.reviewers # <<>> => OkBefore(r, p, "addReviewers", k)
         /\ e.op \in {"createRef", "putFile", "createPullRequest", "addLabels",
                      "addReviewers", "merge"} =>
              Cardinality(CallsOf(r, p, e.op)) = 1

\* a post went through all six calls
C15_Witness ==
  \E r \in Req :
    /\ \E k \in Events(r) : IsEv(trace[r][k], "merge", "ok") /\ trace[r][k].post = 1
    /\ \E k \in Events(r) : IsEv(trace[r][k], "addReviewers", "ok") /\ trace[r][k].post = 1
    /\ \E k \in Events(r) : IsEv(trace[r][k], "addLabels", "ok") /\ trace[r][k].post = 1
    /\ ~inv[r].batch

\* ------------------------------------------------------------------- C16
\* C16: when the auto-merge call of a post (or of the batch) has failed, the
\* result returned for it is still a success with the created pull request's
\* prUrl and prNumber, merged false and no mergeSha.
C16_FailedMergeStillSucceeds ==
  \A r \in Req : \A k \in Events(r) :
    IsEv(trace[r][k], "merge", "fail") =>
      LET p == trace[r][k].post
          n == trace[r][k].val IN
      /\ Opts(r).autoMerge
      /\ Returned(r, p) =>
           /\ ResultOf(r, p).success
           /\ ResultOf(r, p).prUrl = Url(n)
           /\ ResultOf(r, p).prNumber = n
           /\ ~ResultOf(r, p).merged
           /\ ResultOf(r, p).mergeSha = Undef

\* a batch whose merge failed has returned
C16_Witness ==
  \E r \in Req :
    /\ inv[r].batch
    /\ Returned(r, 0)
    /\ \E k \in Events(r) : IsEv(trace[r][k], "merge", "fail")
    /\ ResultOf(r, 0).prUrl = Url(1)

\* ------------------------------------------------------------------- C17
\* the mergeable values pulls.get has returned to the handler
Fetched == {hook.trace[k].val : k \in {j \in 1..Len(hook.trace) : IsEv(hook.trace[j], "getPull", "ok")}}
HookCriteria ==
  /\ hook.payload.action = "opened"
  /\ IsBlogPost(hook.payload)
  /\ (HasAutoMergeLabel(hook.payload) \/ hook.payload.user = AutomatedAccount)
  /\ hook.payload.base = <<"main">>
CommentOnlyAfterMerge ==
  HookCalled("createComment") =>
    \E k \in 1..Len(hook.trace) : IsEv(hook.trace[k], "merge", "ok")

\* C17 (as stated): the webhook handler calls merge only if the action is
\* 'opened', the title has the blog-post prefix, the PR has an auto-merge label
\* or the automated author, its base is 'main', and the fetched PR is
\* mergeable; otherwise neither merge nor createComment is called.
C17_MergeOnlyIfMergeable ==
  /\ HookCalled("merge") => (HookCriteria /\ Fetched = {"true"})
  /\ CommentOnlyAfterMerge

\* C17 (amended): as above, but the fetched PR need only not be reported
\* unmergeable: its mergeable field is true or still null.
C17_MergeOnlyIfNotUnmergeable ==
  /\ HookCalled("merge") =>
       (HookCriteria /\ Fetched # {} /\ Fetched \subseteq {"true", "null"})
  /\ CommentOnlyAfterMerge

\* merge was called for a PR whose mergeability the provider had not computed
C17_Witness ==
  /\ HookCalled("merge")
  /\ Fetched = {"null"}

\* ------------------------------------------------------------------- C18
OpsOf(r) == {trace[r][k].op : k \in Events(r)}
\* calls only publishBlog makes / only publishMultipleBlogsInSinglePR makes
SeparateOnlyOps == {"getContent", "putFile", "delay"}
BatchOnlyOps == {"getRef", "getCommit", "createBlob", "createTree", "createCommit", "updateRef"}

PostFailed(r, p) == \E k \in Events(r) : Fatal(trace[r][k]) /\ trace[r][k].post = p

C20_MergedFlagMatchesPullRequest ==
  [][\A r \in Req :
       (pc[r] = "merge" /\ pc'[r] = "return") =>
         LET res == SuccessResult(inv'[r]) IN
         ~res.merged => ~pulls'[res.prNumber].merged]_vars

\* ------------------------------------------------------------------- C22
MultipleFilesOps == {"getRef", "getCommit", "createBlob", "createTree", "createCommit", "updateRef"}
\* createMultipleFiles was entered: the batch branch exists
MultipleFilesEntered(r) == inv[r].batch /\ CountEv(r, "createRef", "ok") = 1
MultipleFilesFailed(r) ==
  \E k \in Events(r) : Failure(trace[r][k]) /\ trace[r][k].op \in MultipleFilesOps
Visible(r, file) ==
  \E e \in refs[inv[r].branch].tree : e.path = file.path /\ e.content = file.content

\* C22: createMultipleFiles moves the branch ref at most once, and only after
\* every blob upload, the tree creation and the commit creation succeeded; when
\* one of its calls has failed the branch head is the commit the branch was
\* created at and none of the files is on the branch; when the ref was moved
\* every file is on the branch.
C22_MultipleFilesAllOrNothing ==
  \A r \in Req :
    MultipleFilesEntered(r) =>
      LET files == Files(Blogs(r))
          n == Len(files) IN
      /\ CountEv(r, "updateRef", "call") <= 1
      /\ \A k \in Events(r) :
           IsEv(trace[r][k], "updateRef", "call") =>
             /\ \A f \in 1..n : \E j \in 1..(k - 1) :
                  IsEv(trace[r][j], "createBlob", "ok") /\ trace[r][j].val.k = f
             /\ \E j \in 1..(k - 1) : IsEv(trace[r][j], "createTree", "ok")
             /\ \E j \in 1..(k - 1) : IsEv(trace[r][j], "createCommit", "ok")
      /\ CountEv(r, "updateRef", "ok") = 0 =>
           /\ refs[inv[r].branch] = inv[r].baseSha
           /\ \A f \in 1..n : ~Visible(r, files[f])
      /\ MultipleFilesFailed(r) => CountEv(r, "updateRef", "ok") = 0
      /\ CountEv(r, "updateRef", "ok") = 1 => \A f \in 1..n : Visible(r, files[f])

\* the first of two uploads succeeded, the second failed, and the call was abandoned
C22_Witness ==
  \E r \in Req :
    /\ pc[r] = "done"
    /\ MultipleFilesEntered(r)
    /\ Len(Blogs(r)) = 2
    /\ \E k \in Events(r) : IsEv(trace[r][k], "createBlob", "ok") /\ trace[r][k].val.k = 1
    /\ \E k \in Events(r) : IsEv(trace[r][k], "createBlob", "fail") /\ trace[r][k].val.k = 2
    /\ refs[inv[r].branch] = inv[r].baseSha

\* ------------------------------------------------------------------- C23
\* the branches whose head getBranchSHA returned for post p before event k
CreatedFrom(r, p, k) ==
  {trace[r][j - 1].val : j \in {i \in 2..(k - 1) :
      IsEv(trace[r][i], "getBranch", "ok") /\ trace[r][i].post = p}}

Stored(item, slug) ==
  \E k \in 1..Len(getAllJsonBlogPosts(blogsDir)) :
    LET post == getAllJsonBlogPosts(blogsDir)[k] IN
    post.title = item.title /\ post.slug = slug /\ post.html = Marked(item.blog_post)

\* C21: once an n8n webhook request has been answered with success: true,
\* getAllJsonBlogPosts returns every post of that request, whatever other
\* successful requests came before, after or in between.
C21_SuccessfulPostsStayStored ==
  \A r \in Req :
    (n8n[r].pc = "done" /\ n8n[r].resp.success) =>
      \A k \in 1..Len(n8n[r].payload.items) :
        Stored(n8n[r].payload.items[k], n8n[r].resp.posts[k].slug)

\* ------------------------------------------------------------------- C24
Range(seq) == {seq[k] : k \in 1..Len(seq)}
MarkdownWith(slug) == {m \in Range(pages.allPosts) : m.slug = slug}
JsonWith(slug) == {j \in Range(getAllJsonBlogPosts(blogsDir)) : j.slug = slug}
RoutesTo(slug) == {k \in 1..Len(pages.sitemap) : pages.sitemap[k].url = <<"/blog/", slug>>}

\* C24: for every slug of the Markdown collection, whatever JSON posts were
\* ingested: a rendered listing contains the Markdown post and no other post
\* with that slug, the sitemap has the Markdown post's route only, and the slug
\* page shows the Markdown post; the slug page shows a JSON post (or nothing)
\* only for a slug that no Markdown post has.
C24_MarkdownTakesPrecedence ==
  /\ \A m \in Range(pages.allPosts) :
       /\ pages.sortedPosts # <<>> =>
            /\ m \in Range(pages.sortedPosts)
            /\ \A e \in Range(pages.sortedPosts) : e.slug = m.slug => e \in Range(pages.allPosts)
       /\ pages.sitemap # <<>> =>
            /\ Cardinality(RoutesTo(m.slug)) = 1
            /\ \A k \in RoutesTo(m.slug) : pages.sitemap[k].lastModified = m.date
       /\ pages.slug = m.slug => pages.post = normalizePost(m)
  /\ (pages.slug # Undef /\ pages.post \notin {normalizePost(m) : m \in Range(pages.allPosts)}) =>
       MarkdownWith(pages.slug) = {}

\* a file with 'A' and 'b' was ingested next to a Markdown post 'a': the
\* listing shows the Markdown 'a' and the JSON 'b', the slug page the Markdown 'a'
C24_Witness ==
  /\ MarkdownWith(<<"a">>) # {}
  /\ JsonWith(<<"a">>) # {}
  /\ \E e \in Range(pages.sortedPosts) : e.slug = <<"b">> /\ e \in JsonWith(<<"b">>)
  /\ \E e \in Range(pages.sortedPosts) : e.slug = <<"a">>
  /\ pages.slug = <<"a">>
  /\ pages.post \notin JsonWith(<<"a">>)
  /\ Len(pages.sitemap) = Len(StaticRoutes) + Len(pages.allPosts) + 1

====
